---- MODULE Spec2Model ----
(***************************************************************************)
(* Model of the Dpmm collapsed Gibbs sampler of src/src/lib.rs             *)
(* (struct Dpmm and its new / remove / insert / step / scan / run / sort), *)
(* of struct Particles (add_to_live / move_worst_to_dead / update_worst /  *)
(* sample_to_live) and of the nested-sampling driver run(config).          *)
(*                                                                         *)
(* Positions and cluster ids are 0-based as in the Rust code; TLA+         *)
(* sequences are 1-based, so Vec element v[p] is written v[p + 1].         *)
(***************************************************************************)
EXTENDS Integers, Sequences, FiniteSets, TLC

\* ---------------------------------------------------------------- bounds
\* largest dataset submitted to Dpmm::new
MaxN == 3
\* largest `iters` passed to Dpmm::run
MaxIters == 1
\* how many consecutive extra sort() calls are explored after run returns
MaxSorts == 1

\* largest dataset of the runs followed only through sort (SpecSort)
MaxSortN == 5

\* most particles a Particles value ever holds, live and dead together
MaxHeld == 4
\* likelihoods (eps) range over 0..MaxEps
MaxEps == 2

\* largest particle_num and sample_num of a Config given to run(config)
MaxParticles == 3
MaxSamples == 4

\* observation values (the model only needs to tell them apart)
Data == {10 * q : q \in 1..(IF MaxN > MaxSortN THEN MaxN ELSE MaxSortN)}
\* datasets submitted: n pairwise distinct data, or n data with repeats
Inputs(n) == {[q \in 1..n |-> 10 * q], [q \in 1..n |-> 10 * ((q + 1) \div 2)]}
\* concentration parameters tried: invalid (negative, zero) and valid
Alphas == {-1, 0, 1}

VARIABLES
  pc,            \* where the program is: start, panic, idle, run, scan, mid, sort, done
  xs0,           \* the Vec<X> handed to Dpmm::new
  alpha,         \* the alpha handed to Dpmm::new
  xs,            \* Dpmm.xs
  ixs,           \* Dpmm.ixs
  z,             \* Dpmm.partition.z()
  counts,        \* Dpmm.partition.counts()
  components,    \* Dpmm.components, each one the bag of data it has observed
  iters_left,    \* scans still to do in run's (0..iters) loop
  positions,     \* the part of scan's shuffled `positions` not yet visited
  x,             \* step's local x  (datum returned by remove)
  ix,            \* step's local ix (original index returned by remove)
  is_singleton,  \* remove's local is_singleton
  i,             \* sort's loop variable
  visited,       \* history: per original index, steps taken on it in the latest scan (cleared by sort)
  before,        \* history: n and the sum of components' n() when the current step began
  sortBefore,    \* history: cluster id per original index, and counts, when the current sort began
  swaps,         \* history: swaps done by the current sort call
  sortsDone,     \* history: sort calls completed since the last step
  config,        \* the Config handed to the nested-sampling run(config)
  live,          \* Particles.live
  dead,          \* Particles.dead
  iter,          \* the loop variable i of run(config)
  new_particle,  \* the argument of the latest add_to_live call
  ppc            \* where the Particles program is: the call that returned last, or run's position

\* the state of a Dpmm
dpmmVars == <<pc, xs0, alpha, xs, ixs, z, counts, components, iters_left, positions,
              x, ix, is_singleton, i, visited, before, sortBefore, swaps, sortsDone>>

\* the state of a Particles value and of the driver that owns it
particleVars == <<config, live, dead, iter, new_particle, ppc>>

vars == <<dpmmVars, particleVars>>

\* ------------------------------------------------------------ Vec helpers
Min(a, b) == IF a < b THEN a ELSE b

\* Vec::remove(pos): drop the element at 0-based pos, shifting the rest left
VecRemove(s, pos) == [q \in 1..(Len(s) - 1) |-> IF q <= pos THEN s[q] ELSE s[q + 1]]

\* Vec::push
VecPush(s, e) == Append(s, e)

\* slice::swap(a, b) with 0-based a, b
VecSwap(s, a, b) == [s EXCEPT ![a + 1] = s[b + 1], ![b + 1] = s[a + 1]]

\* (0..n).collect()
Range0(n) == [q \in 1..n |-> q - 1]

RECURSIVE SeqSum(_)
SeqSum(s) == IF s = <<>> THEN 0 ELSE Head(s) + SeqSum(Tail(s))

\* all orders `positions.shuffle(rng)` can give to 0..n-1
Shuffles(n) == {p \in [1..n -> 0..(n - 1)] : \A a, b \in 1..n : a # b => p[a] # p[b]}

\* ------------------------------------------- ConjugateModel (rv), as a bag
\* ConjugateModel::new: nothing observed
EmptyComponent == [d \in Data |-> 0]

\* ConjugateModel::observe
Observe(c, d) == [c EXCEPT ![d] = @ + 1]

\* ConjugateModel::forget
Forget(c, d) == [c EXCEPT ![d] = @ - 1]

RECURSIVE BagSize(_, _)
BagSize(c, S) == IF S = {} THEN 0
                 ELSE LET d == CHOOSE e \in S : TRUE IN c[d] + BagSize(c, S \ {d})

\* ConjugateModel::n
CompN(c) == BagSize(c, Data)

\* sum over all components of their observation counts
Mass(cs) == SeqSum([j \in 1..Len(cs) |-> CompN(cs[j])])

\* ------------------------------------------------------- Partition (rv)
\* Partition::remove(pos): drops z[pos]; a cluster left empty loses its
\* count slot and every higher id moves down by one
PartitionRemove(zz, cc, pos) ==
  LET zi == zz[pos + 1]
      z1 == VecRemove(zz, pos)
  IN IF cc[zi + 1] = 1
       THEN [z |-> [q \in 1..Len(z1) |-> IF z1[q] > zi THEN z1[q] - 1 ELSE z1[q]],
             counts |-> VecRemove(cc, zi)]
       ELSE [z |-> z1, counts |-> [cc EXCEPT ![zi + 1] = @ - 1]]

\* Partition::append(zi), defined for zi <= k
PartitionAppend(zz, cc, zi) ==
  [z |-> VecPush(zz, zi),
   counts |-> IF zi = Len(cc) THEN VecPush(cc, 1) ELSE [cc EXCEPT ![zi + 1] = @ + 1]]

\* Crp::draw: every assignment of n data in canonical (first-appearance) order
CrpDraws(n) ==
  {zz \in [1..n -> 0..(n - 1)] :
     \A q \in 1..n : \A v \in 0..(zz[q] - 1) : \E r \in 1..(q - 1) : zz[r] = v}

\* counts of a drawn assignment
CountsOf(zz) ==
  LET k == Cardinality({zz[q] : q \in 1..Len(zz)})
  IN [j \in 1..k |-> Cardinality({q \in 1..Len(zz) : zz[q] = j - 1})]

\* ------------------------------------------------------------- Dpmm::new
\* Crp::new(alpha, n) rejects n = 0 and alpha <= 0
CrpParamsValid(a, n) == a > 0 /\ n > 0

\* components after each datum was observed by the component of its cluster
RECURSIVE ObserveAll(_, _, _, _)
ObserveAll(cs, data, zz, q) ==
  IF q > Len(data) THEN cs
  ELSE ObserveAll([cs EXCEPT ![zz[q] + 1] = Observe(@, data[q])], data, zz, q + 1)

NewComponents(data, zz) ==
  ObserveAll([j \in 1..Len(CountsOf(zz)) |-> EmptyComponent], data, zz, 1)

\* eps of Particle::new: f64::NEG_INFINITY, below every likelihood
NegInf == -1

\* Particle::new(theta): eps -inf, w 0.0, i 0 (yhat, never read, is left out)
ParticleNew(theta) == [eps |-> NegInf, theta |-> theta, w |-> 0, i |-> 0]

\* the Config of a program that never calls run(config)
NoConfig == [data_file |-> "numbers", sample_num |-> 0, particle_num |-> 0, sd_valid |-> TRUE]

\* a program that only exercises the Dpmm holds no Particles
ParticlesUnused ==
  /\ config = NoConfig
  /\ live = <<>> /\ dead = <<>>
  /\ iter = 0
  /\ new_particle = ParticleNew(0)
  /\ ppc = "unused"

Init ==
  /\ pc = "start"
  /\ xs0 \in UNION {Inputs(n) : n \in 0..MaxN}
  /\ alpha \in Alphas
  /\ xs = <<>> /\ ixs = <<>> /\ z = <<>> /\ counts = <<>> /\ components = <<>>
  /\ iters_left = 0
  /\ positions = <<>>
  /\ x = 10 /\ ix = 0 /\ is_singleton = FALSE
  /\ i = 0
  /\ visited = <<>>
  /\ before = [n |-> 0, mass |-> 0]
  /\ sortBefore = [z |-> <<>>, counts |-> <<>>]
  /\ swaps = 0
  /\ sortsDone = 0
  /\ ParticlesUnused

\* mutant: the Err is swallowed and construction carries on with nothing built
InvalidParamsOutcomeDefaulted == "idle"

\* .expect("Invalid params") on the Err of Crp::new: the thread panics
InvalidParamsOutcome == "panic"

\* Dpmm::new with invalid parameters
NewPanics ==
  /\ pc = "start"
  /\ ~CrpParamsValid(alpha, Len(xs0))
  /\ pc' = InvalidParamsOutcome
  /\ UNCHANGED <<xs0, alpha, xs, ixs, z, counts, components, iters_left, positions,
                 x, ix, is_singleton, i, visited, before, sortBefore, swaps, sortsDone>>
  /\ UNCHANGED particleVars

\* Dpmm::new with valid parameters
New ==
  /\ pc = "start"
  /\ CrpParamsValid(alpha, Len(xs0))
  /\ \E zz \in CrpDraws(Len(xs0)) :
       /\ z' = zz
       /\ counts' = CountsOf(zz)
       /\ components' = NewComponents(xs0, zz)
  /\ xs' = xs0
  /\ ixs' = Range0(Len(xs0))
  /\ visited' = [q \in 1..Len(xs0) |-> 0]
  /\ pc' = "idle"
  /\ UNCHANGED <<xs0, alpha, iters_left, positions, x, ix, is_singleton, i,
                 before, sortBefore, swaps, sortsDone>>
  /\ UNCHANGED particleVars

\* ------------------------------------------------------------- Dpmm::run
\* run(iters): the caller picks iters; the (0..iters) loop then scans
Run ==
  /\ pc = "idle"
  /\ \E iters \in 0..MaxIters : iters_left' = iters
  /\ pc' = "run"
  /\ UNCHANGED <<xs0, alpha, xs, ixs, z, counts, components, positions, x, ix,
                 is_singleton, i, visited, before, sortBefore, swaps, sortsDone>>
  /\ UNCHANGED particleVars

\* ------------------------------------------------------------ Dpmm::scan
\* positions = (0..n).collect(); positions.shuffle(rng)
ScanPositions(n) == Shuffles(n)

BeginScan ==
  /\ pc = "run"
  /\ iters_left > 0
  /\ iters_left' = iters_left - 1
  /\ positions' \in ScanPositions(Len(xs))
  /\ visited' = [q \in 1..Len(xs0) |-> 0]
  /\ pc' = "scan"
  /\ UNCHANGED <<xs0, alpha, xs, ixs, z, counts, components, x, ix, is_singleton,
                 i, before, sortBefore, swaps, sortsDone>>
  /\ UNCHANGED particleVars

\* ---------------------------------------------------------- Dpmm::remove
\* let x = self.xs.remove(pos)
RemovedX(data, pos) == data[pos + 1]

\* mutant: the position is returned in place of the original index
RemovedIxAsPos(tracking, pos) == pos

\* let ix = self.ixs.remove(pos)
RemovedIx(tracking, pos) == tracking[pos + 1]

\* mutant: singleton status is tested as if the count were already decremented
IsSingletonAfterRemoval(cc, zi) == cc[zi + 1] = 0

\* let is_singleton = self.partition.counts()[zi] == 1
IsSingleton(cc, zi) == cc[zi + 1] = 1

\* mutant: the component of an evicted cluster is emptied but kept
RemoveComponentsKept(cs, zi, single, d) == [cs EXCEPT ![zi + 1] = Forget(@, d)]

\* if is_singleton { components.remove(zi) } else { components[zi].forget(&x) }
RemoveComponents(cs, zi, single, d) ==
  IF single THEN VecRemove(cs, zi) ELSE [cs EXCEPT ![zi + 1] = Forget(@, d)]

\* assert!(self.components[zi].n() > 0) of the non-singleton branch
RemoveAssertHolds(cs, zi, single) == single \/ CompN(cs[zi + 1]) > 0

\* mutant: the partition is asked to remove the original index, not the position
RemovePartitionAtIx(zz, cc, pos) == PartitionRemove(zz, cc, ixs[pos + 1])

\* mutant: the partition is not told about the removal
RemovePartitionSkipped(zz, cc, pos) == [z |-> zz, counts |-> cc]

\* self.partition.remove(pos).expect("could not remove")
RemovePartition(zz, cc, pos) == PartitionRemove(zz, cc, pos)

\* step(pos): the remove half, pos being the next entry of scan's positions
Remove ==
  /\ pc = "scan"
  /\ positions # <<>>
  /\ positions' = Tail(positions)
  /\ sortsDone' = 0
  /\ LET pos == Head(positions)
     IN IF pos < Len(xs)
          THEN LET zi     == z[pos + 1]
                   single == IsSingleton(counts, zi)
                   part   == RemovePartition(z, counts, pos)
                   cs     == RemoveComponents(components, zi, single, RemovedX(xs, pos))
               IN /\ x' = RemovedX(xs, pos)
                  /\ ix' = RemovedIx(ixs, pos)
                  /\ xs' = VecRemove(xs, pos)
                  /\ ixs' = VecRemove(ixs, pos)
                  /\ is_singleton' = single
                  /\ z' = part.z
                  /\ counts' = part.counts
                  /\ components' = cs
                  /\ visited' = [visited EXCEPT ![ixs[pos + 1] + 1] = @ + 1]
                  /\ before' = [n |-> Len(xs), mass |-> Mass(components)]
                  /\ pc' = IF RemoveAssertHolds(cs, zi, single) THEN "mid" ELSE "panic"
          ELSE \* Vec::remove panics on an index out of bounds
               /\ pc' = "panic"
               /\ UNCHANGED <<xs, ixs, z, counts, components, x, ix, is_singleton,
                              visited, before>>
  /\ UNCHANGED <<xs0, alpha, iters_left, i, sortBefore, swaps>>
  /\ UNCHANGED particleVars

\* ---------------------------------------------------------- Dpmm::insert
\* mutant: a second new-cluster weight is pushed, so one more id can be drawn
SampledIdsOneMore(cc, cs) == 0..(Min(Len(cc), Len(cs)) + 1)

\* ids ln_pflip can return: one weight per (count, component) pair of the
\* zip, plus the weight of a new cluster; every weight is positive
SampledIds(cc, cs) == 0..Min(Len(cc), Len(cs))

\* if zi == k { ctmp.observe(&x); components.push(ctmp) }
\* self.components[zi].observe(&x)
InsertComponents(cs, zi, k, d) ==
  LET pushed == IF zi = k THEN VecPush(cs, Observe(EmptyComponent, d)) ELSE cs
  IN [pushed EXCEPT ![zi + 1] = Observe(@, d)]

\* components[zi] exists once a new cluster's component is pushed, and
\* Partition::append accepts zi <= k
InsertInRange(cs, zi, k) == zi < Len(cs) + (IF zi = k THEN 1 ELSE 0) /\ zi <= k

\* self.xs.push(x)
InsertXs(data, d) == VecPush(data, d)

\* mutant: the original index is not pushed back
InsertIxsMissing(tracking, e) == tracking

\* self.ixs.push(ix)
InsertIxs(tracking, e) == VecPush(tracking, e)

\* self.partition.append(zi).expect("Could not append")
InsertPartition(zz, cc, zi) == PartitionAppend(zz, cc, zi)

\* step(pos): the insert half
Insert ==
  /\ pc = "mid"
  /\ \E zi \in SampledIds(counts, components) :
       IF InsertInRange(components, zi, Len(counts))
         THEN LET part == InsertPartition(z, counts, zi)
              IN /\ components' = InsertComponents(components, zi, Len(counts), x)
                 /\ z' = part.z
                 /\ counts' = part.counts
                 /\ xs' = InsertXs(xs, x)
                 /\ ixs' = InsertIxs(ixs, ix)
                 /\ pc' = IF positions = <<>> THEN "run" ELSE "scan"
         ELSE \* components[zi] out of bounds, or append's Err unwrapped by expect
              /\ pc' = "panic"
              /\ UNCHANGED <<components, z, counts, xs, ixs>>
  /\ UNCHANGED <<xs0, alpha, iters_left, positions, x, ix, is_singleton, i,
                 visited, before, sortBefore, swaps, sortsDone>>
  /\ UNCHANGED particleVars

\* ------------------------------------------------------------ Dpmm::sort
\* cluster id held by the datum of each original index
ZByIndex(tracking, zz) ==
  [q \in 1..Len(tracking) |->
     LET p == CHOOSE r \in 1..Len(tracking) : tracking[r] = q - 1 IN zz[p]]

\* while self.ixs[i] != i
SortMisplaced(tracking, k) == tracking[k + 1] # k

\* let j = self.ixs[i]
SortTarget(tracking, k) == tracking[k + 1]

\* mutant: `if` in place of `while`, one swap per position
SortAfterSwapOnce(k) == k + 1

\* the while loop tests the same i again after a swap
SortAfterSwap(k) == k

\* mutant: the tracking entries are not swapped
SortSwapIxsMissing(tracking, a, b) == tracking

\* self.ixs.swap(i, j)
SortSwapIxs(tracking, a, b) == VecSwap(tracking, a, b)

\* mutant: the assignments are not swapped along
SortSwapZMissing(zz, a, b) == zz

\* self.partition.z_mut().swap(i, j)
SortSwapZ(zz, a, b) == VecSwap(zz, a, b)

\* mutant: the data are not swapped along
SortSwapXsMissing(data, a, b) == data

\* self.xs.swap(i, j)
SortSwapXs(data, a, b) == VecSwap(data, a, b)

\* run's trailing self.sort(), entered once the scans are done
RunSort ==
  /\ pc = "run"
  /\ iters_left = 0
  /\ pc' = "sort"
  /\ i' = 0
  /\ swaps' = 0
  /\ sortBefore' = [z |-> ZByIndex(ixs, z), counts |-> counts]
  /\ visited' = [q \in 1..Len(xs0) |-> 0]
  /\ UNCHANGED <<xs0, alpha, xs, ixs, z, counts, components, iters_left, positions,
                 x, ix, is_singleton, before, sortsDone>>
  /\ UNCHANGED particleVars

\* a further sort() call on the sorted model
SortAgain ==
  /\ pc = "done"
  /\ sortsDone <= MaxSorts
  /\ pc' = "sort"
  /\ i' = 0
  /\ swaps' = 0
  /\ sortBefore' = [z |-> ZByIndex(ixs, z), counts |-> counts]
  /\ visited' = [q \in 1..Len(xs0) |-> 0]
  /\ UNCHANGED <<xs0, alpha, xs, ixs, z, counts, components, iters_left, positions,
                 x, ix, is_singleton, before, sortsDone>>
  /\ UNCHANGED particleVars

\* one iteration of the while loop: swap positions i and j in all three Vecs
SortSwap ==
  /\ pc = "sort"
  /\ i < Len(xs)
  /\ SortMisplaced(ixs, i)
  /\ LET j == SortTarget(ixs, i)
     IN /\ ixs' = SortSwapIxs(ixs, i, j)
        /\ z' = SortSwapZ(z, i, j)
        /\ xs' = SortSwapXs(xs, i, j)
  /\ i' = SortAfterSwap(i)
  /\ swaps' = swaps + 1
  /\ UNCHANGED <<pc, xs0, alpha, counts, components, iters_left, positions, x, ix,
                 is_singleton, visited, before, sortBefore, sortsDone>>
  /\ UNCHANGED particleVars

\* the while condition is false: the for loop moves on to i + 1
SortAdvance ==
  /\ pc = "sort"
  /\ i < Len(xs)
  /\ ~SortMisplaced(ixs, i)
  /\ i' = i + 1
  /\ UNCHANGED <<pc, xs0, alpha, xs, ixs, z, counts, components, iters_left,
                 positions, x, ix, is_singleton, visited, before, sortBefore,
                 swaps, sortsDone>>
  /\ UNCHANGED particleVars

\* the for loop is exhausted: sort returns
SortReturn ==
  /\ pc = "sort"
  /\ i = Len(xs)
  /\ pc' = "done"
  /\ sortsDone' = sortsDone + 1
  /\ UNCHANGED <<xs0, alpha, xs, ixs, z, counts, components, iters_left, positions,
                 x, ix, is_singleton, i, visited, before, sortBefore, swaps>>
  /\ UNCHANGED particleVars

Next ==
  \/ NewPanics
  \/ New
  \/ Run
  \/ BeginScan
  \/ Remove
  \/ Insert
  \/ RunSort
  \/ SortAgain
  \/ SortSwap
  \/ SortAdvance
  \/ SortReturn

Spec == Init /\ [][Next]_vars

\* ---------------------------------------------- runs followed through sort
\* parity of the number of inversions of a permutation
PermParity(p) ==
  Cardinality({pr \in (1..Len(p)) \X (1..Len(p)) : pr[1] < pr[2] /\ p[pr[1]] > p[pr[2]]}) % 2

\* orders of ixs that scans produce: a scan is n moves-to-the-end, of parity
\* n(n-1)/2, so for n = 0, 1 (mod 4) only even permutations arise
ScanReachable(n) ==
  {p \in Shuffles(n) : ((n * (n - 1)) \div 2) % 2 = 0 => PermParity(p) = 0}

\* drawn partitions in which no cluster is a singleton
NoSingleton(zz) == \A j \in 1..Len(CountsOf(zz)) : CountsOf(zz)[j] >= 2

\* The model as run() enters sort() after scans in which every insert sampled
\* the cluster the datum had just left (no cluster created or evicted), so
\* that z follows the data and the components are those of construction.
\* For n <= 4 each of these states is a state of Spec after at most 3 scans.
InitSort ==
  /\ pc = "sort"
  /\ alpha = 1
  /\ xs0 \in {[q \in 1..n |-> 10 * q] : n \in 2..MaxSortN}
  /\ ixs \in ScanReachable(Len(xs0))
  /\ xs = [q \in 1..Len(xs0) |-> xs0[ixs[q] + 1]]
  /\ \E zz \in {c \in CrpDraws(Len(xs0)) : NoSingleton(c)} :
       /\ z = [q \in 1..Len(xs0) |-> zz[ixs[q] + 1]]
       /\ counts = CountsOf(zz)
       /\ components = NewComponents(xs0, zz)
       /\ sortBefore = [z |-> zz, counts |-> CountsOf(zz)]
  /\ iters_left = 0
  /\ positions = <<>>
  /\ x = xs[Len(xs)] /\ ix = ixs[Len(ixs)] /\ is_singleton = FALSE
  /\ i = 0
  /\ visited = [q \in 1..Len(xs0) |-> 0]
  /\ before = [n |-> Len(xs0), mass |-> Len(xs0)]
  /\ swaps = 0
  /\ sortsDone = 0
  /\ ParticlesUnused

NextSort ==
  \/ SortSwap
  \/ SortAdvance
  \/ SortReturn
  \/ SortAgain

SpecSort == InitSort /\ [][NextSort]_vars

\* sort() is a single-threaded loop: whenever a loop step is possible the
\* program takes it
SpecSortFair == SpecSort /\ WF_vars(SortSwap \/ SortAdvance \/ SortReturn)

\* ============================================================= Particles
\* a program that only exercises Particles holds no Dpmm
DpmmUnused ==
  /\ pc = "unused"
  /\ xs0 = <<>> /\ alpha = 1
  /\ xs = <<>> /\ ixs = <<>> /\ z = <<>> /\ counts = <<>> /\ components = <<>>
  /\ iters_left = 0
  /\ positions = <<>>
  /\ x = 10 /\ ix = 0 /\ is_singleton = FALSE
  /\ i = 0
  /\ visited = <<>>
  /\ before = [n |-> 0, mass |-> 0]
  /\ sortBefore = [z |-> <<>>, counts |-> <<>>]
  /\ swaps = 0
  /\ sortsDone = 0

\* likelihoods a particle can carry
EpsValues == 0..MaxEps

\* live is in non-decreasing order of eps
SortedByEps(l) == \A q \in 1..(Len(l) - 1) : l[q].eps <= l[q + 1].eps

\* Particle::new_with_all(eps, theta, yhat, w, i) as the tests call it
ParticleNewWithAll(eps, theta, w, it) == [eps |-> eps, theta |-> theta, w |-> w, i |-> it]

\* populations handed to new_with_particles the way set_up_test_particles
\* builds them: the particle at index q has theta q and i q, the eps ascend,
\* and dead is empty
TestPopulations ==
  {l \in UNION {[1..n -> EpsValues] : n \in 0..(MaxHeld - 1)} :
     \A q \in 1..(Len(l) - 1) : l[q] <= l[q + 1]}

\* Particles::new_with_particles(live, dead) on such a population
InitParticles ==
  /\ DpmmUnused
  /\ config = NoConfig
  /\ \E l \in TestPopulations :
       live = [q \in 1..Len(l) |-> ParticleNewWithAll(l[q], q - 1, 0, q - 1)]
  /\ dead = <<>>
  /\ iter = 0
  /\ new_particle = ParticleNew(0)
  /\ ppc = "new_with_particles"

\* mutant: the new particle always goes to the front
SearchPositionsFront(l, e) == {0}

\* live.binary_search_by_key(&eps, |a| a.eps).unwrap_or_else(|e| e): the index
\* of a particle with that eps (any one of them when several match), else the
\* index at which that eps keeps the order, i.e. the number of smaller keys
SearchPositions(l, e) ==
  LET matches == {q - 1 : q \in {r \in 1..Len(l) : l[r].eps = e}}
  IN IF matches # {} THEN matches
     ELSE {Cardinality({r \in 1..Len(l) : l[r].eps < e})}

\* VecDeque::insert(pos, p)
DequeInsert(l, pos, p) ==
  [q \in 1..(Len(l) + 1) |-> IF q <= pos THEN l[q] ELSE IF q = pos + 1 THEN p ELSE l[q - 1]]

\* Particles::add_to_live(new_particle)
AddToLive ==
  /\ ppc \in {"new_with_particles", "add_to_live", "move_worst_to_dead"}
  /\ Len(live) + Len(dead) < MaxHeld
  /\ \E e \in EpsValues :
       LET p == ParticleNewWithAll(e, -1, 0, 20)
       IN /\ new_particle' = p
          /\ \E pos \in SearchPositions(live, e) : live' = DequeInsert(live, pos, p)
  /\ ppc' = "add_to_live"
  /\ UNCHANGED <<config, dead, iter>>
  /\ UNCHANGED dpmmVars

\* mutant: the best particle is taken, from the back
PopBack(l) == [worst |-> l[Len(l)], rest |-> SubSeq(l, 1, Len(l) - 1)]

\* live.pop_front() on a non-empty deque
PopFront(l) == [worst |-> Head(l), rest |-> Tail(l)]

\* Particles::move_worst_to_dead()
MoveWorstToDead ==
  /\ ppc \in {"new_with_particles", "add_to_live", "move_worst_to_dead"}
  /\ IF live # <<>>
       THEN LET popped == PopFront(live)
            IN /\ live' = popped.rest
               /\ dead' = VecPush(dead, popped.worst)
               /\ ppc' = "move_worst_to_dead"
       ELSE \* pop_front() is None and unwrap() panics
            /\ ppc' = "panic_unwrap"
            /\ UNCHANGED <<live, dead>>
  /\ UNCHANGED <<config, iter, new_particle>>
  /\ UNCHANGED dpmmVars

NextParticles ==
  \/ AddToLive
  \/ MoveWorstToDead

SpecParticles == InitParticles /\ [][NextParticles]_vars

\* ======================================================== run(config)
\* what config.data_file can be: a file of space-separated numbers, no
\* readable file, or a file with a token that is not a number
DataFiles == {"numbers", "missing", "garbage"}

\* the Configs tried; beta_num is never read, and of mu and sd only whether
\* every sd is accepted by Normal::new matters
Configs ==
  [data_file : DataFiles, sample_num : 0..MaxSamples, particle_num : 0..MaxParticles,
   sd_valid : BOOLEAN]

\* weights w_i handed to update_worst (the model only needs to tell them apart)
Weights == {1, 2}

\* Particles::new: particle_num particles of eps -inf, w 0.0 and i 0, each
\* with its own prior sample theta, listed as the sort by eps leaves them
ParticlesNew(n) == [q \in 1..n |-> ParticleNew(q)]

\* Beta::new(shape_a, shape_b) is Ok for positive shapes only
BetaParamsValid(a, b) == a > 0 /\ b > 0

\* how the part of run before the loop ends: read_to_string(..)?, then
\* parse().unwrap(), then Particles::new(..)? (Normal::new(mu, sd)?), then
\* Beta::new(1.0, particles.len() as f64)?
SetupOutcome(c) ==
  IF c.data_file = "missing" THEN "err"
  ELSE IF c.data_file = "garbage" THEN "panic_parse"
  ELSE IF ~c.sd_valid THEN "err"
  ELSE IF ~BetaParamsValid(1, c.particle_num) THEN "err"
  ELSE "loop"

InitDriver ==
  /\ DpmmUnused
  /\ config \in Configs
  /\ live = <<>> /\ dead = <<>>
  /\ iter = 0
  /\ new_particle = ParticleNew(0)
  /\ ppc = "run"

\* run(config) up to the for loop
RunSetup ==
  /\ ppc = "run"
  /\ ppc' = SetupOutcome(config)
  /\ live' = IF SetupOutcome(config) = "loop" THEN ParticlesNew(config.particle_num) ELSE <<>>
  /\ UNCHANGED <<config, dead, iter, new_particle>>
  /\ UNCHANGED dpmmVars

\* for i in 0..config.sample_num, and Ok(()) once the range is exhausted
RunLoop ==
  /\ ppc = "loop"
  /\ ppc' = IF iter < config.sample_num THEN "at_update" ELSE "returned"
  /\ UNCHANGED <<config, live, dead, iter, new_particle>>
  /\ UNCHANGED dpmmVars

\* self.live[0].i = iter; self.live[0].w = w
UpdateWorst(l, w, it) == [l EXCEPT ![1] = [@ EXCEPT !.i = it, !.w = w]]

\* particles.update_worst(w_i, i)
RunUpdateWorst ==
  /\ ppc = "at_update"
  /\ IF live # <<>>
       THEN /\ \E w \in Weights : live' = UpdateWorst(live, w, iter)
            /\ ppc' = "at_move"
       ELSE \* self.live[0] on an empty VecDeque: index out of bounds
            /\ ppc' = "panic_index"
            /\ UNCHANGED live
  /\ UNCHANGED <<config, dead, iter, new_particle>>
  /\ UNCHANGED dpmmVars

\* particles.move_worst_to_dead()
RunMoveWorst ==
  /\ ppc = "at_move"
  /\ IF live # <<>>
       THEN LET popped == PopFront(live)
            IN /\ live' = popped.rest
               /\ dead' = VecPush(dead, popped.worst)
               /\ ppc' = "at_sample"
       ELSE /\ ppc' = "panic_unwrap"
            /\ UNCHANGED <<live, dead>>
  /\ UNCHANGED <<config, iter, new_particle>>
  /\ UNCHANGED dpmmVars

\* mutant: sample_to_live puts a fresh particle into live
SampleToLiveRefills(l) == VecPush(l, ParticleNew(0))

\* fn sample_to_live(&mut self) { }: the body is empty
SampleToLive(l) == l

\* particles.sample_to_live(), the last statement of the loop body
RunSampleToLive ==
  /\ ppc = "at_sample"
  /\ live' = SampleToLive(live)
  /\ iter' = iter + 1
  /\ ppc' = "loop"
  /\ UNCHANGED <<config, dead, new_particle>>
  /\ UNCHANGED dpmmVars

NextDriver ==
  \/ RunSetup
  \/ RunLoop
  \/ RunUpdateWorst
  \/ RunMoveWorst
  \/ RunSampleToLive

SpecDriver == InitDriver /\ [][NextDriver]_vars

\* run(config) is sequential code: a statement that can run does run
SpecDriverFair == SpecDriver /\ WF_vars(NextDriver)

\* ================================================================ claims
\* the model is constructed and no step is half done
AtBoundary == pc \in {"idle", "run", "scan", "sort", "done"}

\* n, the number of data
N == Len(xs0)

\* C1: for every live cluster j the component's count equals the partition's
\* count, after construction and after every completed step (as claimed)
C1_ComponentCountsMatch ==
  AtBoundary =>
    /\ Len(components) = Len(counts)
    /\ \A j \in 1..Len(counts) : CompN(components[j]) = counts[j]

\* C2: when a scan has completed, every datum (by original index) was the
\* subject of exactly one step of it (as claimed)
C2_EachDatumSteppedOnce ==
  (pc = "run" /\ SeqSum(visited) = N) => \A q \in 1..N : visited[q] = 1

\* C3: the insert that follows a remove restores n and the total of the
\* components' observation counts to what they were before the remove (as claimed)
C3_RoundTripKeepsMass ==
  [][pc = "mid" => (Len(xs') = before.n /\ Mass(components') = before.mass)]_vars

\* C4 as claimed: construction with alpha <= 0 or n = 0 ends in an error
\* returned to the caller
C4_RecoverableError ==
  (pc # "start" /\ (alpha <= 0 \/ Len(xs0) = 0)) => pc = "error"

\* C4 amended: construction with alpha <= 0 or n = 0 panics; nothing is built
\* and no default takes the place of the rejected parameters
C4_InvalidParamsPanic ==
  (pc # "start" /\ (alpha <= 0 \/ Len(xs0) = 0)) =>
    /\ pc = "panic"
    /\ xs = <<>> /\ ixs = <<>> /\ z = <<>> /\ counts = <<>> /\ components = <<>>

C4_Witness == pc = "panic" /\ alpha <= 0 /\ Len(xs0) > 0

\* C5: data, tracking and assignment sequences all have length n at every
\* operation boundary (construction, completed step, scan, swap of sort) and
\* length n - 1 between a remove and its insert
C5_EqualLengths ==
  /\ AtBoundary => (Len(xs) = N /\ Len(ixs) = N /\ Len(z) = N)
  /\ pc = "mid" => (Len(xs) = N - 1 /\ Len(ixs) = N - 1 /\ Len(z) = N - 1)

C5_Witness == pc = "mid" /\ N >= 2 /\ Len(ixs) = N - 1 /\ SeqSum(visited) >= 2

\* C6: ixs is a permutation of 0..n-1 at every operation boundary
C6_TrackingIsPermutation ==
  AtBoundary =>
    /\ Len(ixs) = N
    /\ {ixs[q] : q \in 1..Len(ixs)} = 0..(N - 1)

C6_Witness == pc = "sort" /\ swaps > 0 /\ N >= 3

\* C7: at every operation boundary counts[j] is the number of positions
\* assigned j, every assignment is a live id, and the counts sum to n
C7_CountsAgreeWithZ ==
  AtBoundary =>
    /\ \A q \in 1..Len(z) : z[q] \in 0..(Len(counts) - 1)
    /\ \A j \in 1..Len(counts) :
         counts[j] = Cardinality({q \in 1..Len(z) : z[q] = j - 1})
    /\ SeqSum(counts) = Len(xs)

C7_Witness ==
  /\ pc \in {"scan", "run"}
  /\ SeqSum(visited) > 0
  /\ Len(counts) >= 2
  /\ z[1] # 0

\* C8: remove evicts the removed datum's cluster (count slot and component)
\* exactly when its count before the removal is 1 and otherwise keeps both,
\* and no count is ever below 1 once a remove or an insert has returned
C8_NoZeroCountCluster ==
  /\ []((AtBoundary \/ pc = "mid") => \A j \in 1..Len(counts) : counts[j] >= 1)
  /\ [][pc = "scan" =>
          LET zi == z[Head(positions) + 1]
          IN IF counts[zi + 1] = 1
               THEN /\ counts' = VecRemove(counts, zi)
                    /\ components' = VecRemove(components, zi)
               ELSE /\ Len(counts') = Len(counts)
                    /\ counts'[zi + 1] = counts[zi + 1] - 1
                    /\ Len(components') = Len(components)]_vars

C8_Witness == pc = "mid" /\ is_singleton /\ Len(counts) >= 1

\* C9: when sort has returned, ixs is 0..n-1, the data are in submission
\* order, position i holds the cluster id the datum of original index i had
\* when sort began, and the counts are those of before the sort
C9_SortRestoresOrder ==
  pc = "done" =>
    /\ ixs = Range0(N)
    /\ xs = xs0
    /\ z = sortBefore.z
    /\ counts = sortBefore.counts

C9_Witness == pc = "done" /\ swaps > 0 /\ \E p, q \in 1..Len(z) : z[p] # z[q]

\* C10: a sort() call that follows a sort() call performs no swap and leaves
\* data, tracking and assignments as they are
C10_SortIdempotent ==
  [][(pc = "sort" /\ sortsDone >= 1) =>
       (swaps' = 0 /\ xs' = xs /\ ixs' = ixs /\ z' = z)]_vars

C10_Witness == pc = "done" /\ sortsDone >= 2 /\ swaps = 0

\* positions of the tracking sequence that hold their own index
SortFixed(tracking) == Cardinality({q \in 1..Len(tracking) : tracking[q] = q - 1})

\* C11: sort() returns for every order of ixs; it does at most n swaps, every
\* swap puts at least one more entry of ixs at its own index, no index used
\* by the loop is out of range, and every loop step advances i or swaps
C11_SortTerminates ==
  /\ []((pc = "sort" /\ i < N) => SortTarget(ixs, i) \in 0..(N - 1))
  /\ [](pc \in {"sort", "done"} => (swaps <= N /\ i <= N))
  /\ [][(pc = "sort" /\ pc' = "sort") =>
          \/ (swaps' = swaps /\ i' = i + 1)
          \/ (swaps' = swaps + 1 /\ i' = i /\ SortFixed(ixs') > SortFixed(ixs))]_vars
  /\ ((pc = "sort") ~> (pc = "done"))

C11_Witness == pc = "done" /\ N = MaxSortN /\ swaps = N - 1

\* C12: with n = 1 the model has exactly one cluster (counts [1], one
\* component, assignment [0]) after construction and after every step; the
\* step's remove evicts the singleton and leaves no cluster, and its insert
\* can only sample the new cluster's id 0
C12_SingleDatumSingleCluster ==
  /\ []((N = 1 /\ AtBoundary) =>
          (counts = <<1>> /\ Len(components) = 1 /\ z = <<0>>))
  /\ []((N = 1 /\ pc = "mid") =>
          (counts = <<>> /\ components = <<>> /\ z = <<>>
             /\ SampledIds(counts, components) = {0}))
  /\ [][(N = 1 /\ pc = "scan") => (pc' = "mid" /\ is_singleton')]_vars
  /\ [][(N = 1 /\ pc = "mid") => (pc' = "run" /\ z' = <<0>> /\ counts' = <<1>>)]_vars

C12_Witness == N = 1 /\ pc = "run" /\ SeqSum(visited) = 1 /\ counts = <<1>>

\* C14: live stays sorted by eps after any sequence of add_to_live and
\* move_worst_to_dead calls; add_to_live(p) makes live one longer, leaves the
\* particles it held in their order with p put between them, also next to
\* particles of the same eps, and leaves dead as it is
C14_AddKeepsLiveSorted ==
  /\ [](ppc \in {"new_with_particles", "add_to_live", "move_worst_to_dead"} =>
          SortedByEps(live))
  /\ [][ppc' = "add_to_live" =>
          /\ Len(live') = Len(live) + 1
          /\ \E pos \in 0..Len(live) :
               /\ live'[pos + 1] = new_particle'
               /\ VecRemove(live', pos) = live
          /\ dead' = dead]_vars

C14_Witness ==
  /\ ppc = "add_to_live"
  /\ dead # <<>>
  /\ \E q \in 1..Len(live) : live[q] # new_particle /\ live[q].eps = new_particle.eps
  /\ \E q \in 1..Len(live) : live[q].eps < new_particle.eps

\* C15: move_worst_to_dead on a non-empty live removes the front particle,
\* the one of lowest eps, and appends it to dead; the other live particles
\* and the earlier dead ones keep their order
C15_MoveWorstIsFrontToBack ==
  [][ppc' = "move_worst_to_dead" =>
       /\ live # <<>>
       /\ \A q \in 1..Len(live) : live[1].eps <= live[q].eps
       /\ Len(live') = Len(live) - 1 /\ live' = Tail(live)
       /\ Len(dead') = Len(dead) + 1 /\ dead' = Append(dead, live[1])]_vars

C15_Witness ==
  /\ ppc = "move_worst_to_dead"
  /\ Len(dead) >= 2
  /\ Len(live) >= 2
  /\ dead[1].eps < dead[2].eps

\* two positions hold data of the same cluster
SameCluster(zz, p, q) == zz[p] = zz[q]

\* C16: the three sequences stay paired: at every boundary and between a
\* remove and its insert, xs[p] is the datum submitted at index ixs[p] and
\* z[p] names a component that holds that datum; remove takes x, ix and the
\* assignment from one position, insert appends all three at the end, and a
\* swap of sort leaves every original index with its datum and cluster id
C16_SequencesStayPaired ==
  /\ []((AtBoundary \/ pc = "mid") =>
          /\ Len(xs) = Len(ixs) /\ Len(z) = Len(xs)
          /\ \A p \in 1..Len(xs) :
               /\ xs[p] = xs0[ixs[p] + 1]
               /\ components[z[p] + 1][xs[p]] >= 1)
  /\ [](pc = "mid" => x = xs0[ix + 1])
  /\ [][(pc = "scan" /\ pc' = "mid") =>
          LET pos == Head(positions)
          IN /\ x' = xs[pos + 1] /\ ix' = ixs[pos + 1]
             /\ xs' = VecRemove(xs, pos) /\ ixs' = VecRemove(ixs, pos)
             /\ \A p, q \in 1..Len(z') :
                  SameCluster(z', p, q) <=> SameCluster(VecRemove(z, pos), p, q)]_vars
  /\ [][(pc = "mid" /\ pc' # "panic") =>
          /\ xs' = Append(xs, x) /\ ixs' = Append(ixs, ix)
          /\ Len(z') = Len(z) + 1 /\ SubSeq(z', 1, Len(z)) = z
          /\ components'[z'[Len(z')] + 1][x] >= 1]_vars
  /\ [][pc = "sort" => ZByIndex(ixs', z') = ZByIndex(ixs, z)]_vars

C16_Witness ==
  /\ pc = "sort"
  /\ swaps > 0
  /\ Len(counts) >= 2
  /\ xs0[1] # xs0[2]

\* the data a component has observed and not forgotten
ObservedSet(c) == {d \in Data : c[d] >= 1}

\* the data currently assigned cluster id j (0-based)
AssignedSet(data, zz, j) == {data[p] : p \in {q \in 1..Len(zz) : zz[q] = j}}

\* C17: after construction and after every remove and insert there are as
\* many components as clusters, and component j holds exactly the data that
\* are assigned id j (as claimed)
C17_ComponentsAligned ==
  (AtBoundary \/ pc = "mid") =>
    /\ Len(components) = Len(counts)
    /\ \A j \in 1..Len(counts) :
         ObservedSet(components[j]) = AssignedSet(xs, z, j - 1)

\* where the entry of 1-based position p is after Vec::remove(pos)
AfterRemoval(p, pos) == IF p > pos + 1 THEN p - 1 ELSE p

\* C18: step(pos) changes the cluster membership of the datum at pos only.
\* Its remove half takes that datum's original index and leaves the others
\* in their order, two of them sharing a cluster afterwards exactly when they
\* did before, relabelled or not; its insert half puts the datum last with
\* the same original index and again leaves the others' order and shared
\* clusters as they were
C18_StepMovesOneDatum ==
  /\ [][(pc = "scan" /\ pc' = "mid") =>
          LET pos == Head(positions)
          IN /\ ix' = ixs[pos + 1]
             /\ ixs' = VecRemove(ixs, pos)
             /\ \A p, q \in (1..Len(z)) \ {pos + 1} :
                  SameCluster(z, p, q) <=>
                    SameCluster(z', AfterRemoval(p, pos), AfterRemoval(q, pos))]_vars
  /\ [][(pc = "mid" /\ pc' # "panic") =>
          /\ ixs' = Append(ixs, ix)
          /\ Len(z') = Len(z) + 1
          /\ \A p, q \in 1..Len(z) : SameCluster(z, p, q) <=> SameCluster(z', p, q)]_vars
  /\ []((pc \in {"scan", "run"} /\ SeqSum(visited) >= 1) => ixs[Len(ixs)] = ix)

C18_Witness ==
  /\ pc \in {"scan", "run"}
  /\ SeqSum(visited) >= 1
  /\ is_singleton
  /\ Len(counts) >= 2
  /\ z[Len(z)] = Len(counts) - 1
  /\ counts[Len(counts)] = 1
  /\ z[1] # 0

\* C19: once a Dpmm is built from n >= 1 data and alpha > 0, nothing in
\* run(iters) panics: remove's position is in range, its non-singleton branch
\* forgets from a component that has observations and has some left for the
\* assertion, and insert's sampled id is at most k, so components[zi] and the
\* partition append succeed
C19_NoPanicInRun ==
  /\ CrpParamsValid(alpha, Len(xs0)) => pc # "panic"
  /\ pc = "scan" =>
       /\ Head(positions) < Len(xs)
       /\ LET zi == z[Head(positions) + 1]
          IN ~IsSingleton(counts, zi) =>
               /\ components[zi + 1][xs[Head(positions) + 1]] >= 1
               /\ CompN(components[zi + 1]) >= 2
  /\ pc = "mid" =>
       /\ Len(components) = Len(counts)
       /\ \A zi \in SampledIds(counts, components) : zi \in 0..Len(counts)

C19_Witness ==
  /\ pc = "mid"
  /\ ~is_singleton
  /\ SeqSum(visited) >= 2
  /\ Len(counts) >= 2

\* run(config) got as far as its for loop
InLoop == ppc \in {"loop", "at_update", "at_move", "at_sample", "returned",
                   "panic_index", "panic_unwrap"}

\* run(config) is over: it returned Ok or Err, or it panicked
RunOver == ppc \in {"returned", "err", "panic_parse", "panic_index", "panic_unwrap"}

\* the data file is readable and numeric, and every sd is valid
InputsFine == config.data_file = "numbers" /\ config.sd_valid

\* C20 as claimed: with inputs that are fine, run(config) completes its loop
\* when sample_num <= particle_num and otherwise aborts on the empty live
C20_CompletesIffEnoughParticles ==
  (InputsFine /\ RunOver) =>
    IF config.sample_num <= config.particle_num
      THEN ppc = "returned"
      ELSE ppc \in {"panic_index", "panic_unwrap"}

\* C20 amended: the loop is reached only with particle_num >= 1 (with
\* particle_num = 0 run returns Err before it). Once it is reached, every
\* iteration moves the front live particle to dead and adds none back, so
\* live and dead together hold particle_num particles throughout and live
\* holds particle_num - i after i iterations; the run ends, returning Ok after
\* sample_num iterations exactly when sample_num <= particle_num and
\* otherwise panicking in update_worst on the empty live at iteration
\* particle_num
C20_DriverDrainsLive ==
  /\ []((InputsFine /\ config.particle_num = 0 /\ ppc # "run") => ppc = "err")
  /\ [](InLoop =>
          /\ config.particle_num >= 1
          /\ Len(live) + Len(dead) = config.particle_num)
  /\ [](ppc \in {"loop", "at_update", "returned", "panic_index"} =>
          (Len(dead) = iter /\ Len(live) = config.particle_num - iter))
  /\ [][ppc = "at_move" => (live' = Tail(live) /\ dead' = Append(dead, Head(live)))]_vars
  /\ [][ppc = "at_sample" => (live' = live /\ dead' = dead /\ iter' = iter + 1)]_vars
  /\ [](ppc = "returned" =>
          (config.sample_num <= config.particle_num /\ iter = config.sample_num))
  /\ [](ppc = "panic_index" =>
          (config.sample_num > config.particle_num /\ iter = config.particle_num
             /\ live = <<>>))
  /\ [](ppc # "panic_unwrap")
  /\ ((ppc = "loop") ~> (ppc \in {"returned", "panic_index"}))

C20_Witness ==
  /\ ppc = "panic_index"
  /\ config.particle_num >= 2
  /\ Len(dead) = config.particle_num
  /\ dead[1].i = 0 /\ dead[2].i = 1
====
